---- MODULE Spec2Model ----
(***************************************************************************)
(* A model of ormar's QuerySet (src/ormar/queryset/queryset.py): the       *)
(* chainable query specification and the terminal operations that execute  *)
(* it against a database transport.                                        *)
(*                                                                         *)
(* Python objects live on a heap: `lists` holds the list objects, `qs`     *)
(* the QuerySet objects, whose list-valued attributes are references into  *)
(* `lists`, so that sharing a list between two QuerySets is visible.       *)
(***************************************************************************)
EXTENDS Integers, Sequences, FiniteSets, TLC

VARIABLES
    lists,   \* heap of Python list objects: list id -> contents
    qs,      \* heap of QuerySet objects: object id -> attributes
    hist,    \* history: per QuerySet, what its chain of calls added
    last,    \* the latest chain call: receiver, returned object, heap before
    built,   \* the arguments build_select_expression last gave to Query(...)
    table,   \* the database: the rows of the root table joined with children
    meta,    \* the entity's metadata (primary key flags)
    call     \* the latest terminal call: arguments, statements issued, outcome

vars == <<lists, qs, hist, last, built, table, meta, call>>

-----------------------------------------------------------------------------
(* Bounds *)

MaxSpecs == 3      \* QuerySet objects alive at once
MaxKw == 1         \* keyword arguments of one filter/exclude call
MaxCount == 1      \* values of limit / offset (0..MaxCount)
MaxRows == 3       \* raw rows the database holds when it is read
MaxWriteRows == 2  \* rows the root table holds when it is written
MaxObjs == 2       \* objects of one bulk_update call

-----------------------------------------------------------------------------
(* Values *)

None == 0 - 1

\* None where an object is expected.
NoneObj == [isNone |-> TRUE]

Range(s) == {s[k] : k \in DOMAIN s}

NoDup(s) == \A a, b \in DOMAIN s : a # b => s[a] # s[b]

Perms(S) == {s \in [1..Cardinality(S) -> S] : Range(s) = S}

\* Python dicts are functions from their keys.
EmptyDict == [k \in {} |-> None]

Dicts(Names, Vs) == UNION {[D -> Vs] : D \in SUBSET Names}

Del(d, k) == [x \in DOMAIN d \ {k} |-> d[x]]

Put(d, k, v) == [x \in DOMAIN d \cup {k} |-> IF x = k THEN v ELSE d[x]]

Restrict(d, Names) == [x \in DOMAIN d \cap Names |-> d[x]]

\* An entity whose key is an autoincrementing integer.
AutoMeta == [pkname |-> "id", autoincrement |-> TRUE, nullable |-> FALSE,
             pk_type |-> "int", defaults |-> EmptyDict]

\* The relation paths of the entity; "children" is one-to-many.
Paths == {"children", "owner"}

\* The primary keys and column values used.
Ids == {1, 2}

Vals == {1, 2}

Kids == {1, 2, 3}

\* Keyword lookups: column = value.  "children__id" looks into the relation,
\* "pk" is the alias of the primary key.
LookupFields == {"id", "val", "children__id"}

FieldOrder == <<"pk", "id", "val", "children__id">>

\* The keyword arguments the chain calls are made with.
Kwargs == {kw \in Dicts(LookupFields, {1}) : Cardinality(DOMAIN kw) <= MaxKw}

\* The argument of select_related: one path (a str) or a list of paths.
RelatedArgs ==
    [islist : {FALSE}, item : Paths]
    \cup [islist : {TRUE}, items : UNION {[1..n -> Paths] : n \in 0..2}]

-----------------------------------------------------------------------------
(* QuerySet.__init__ and the chain methods, on the heap H = [lists, qs]    *)

\* A new list object holding `content`.
AllocList(ls, content) == [lists |-> Append(ls, content), id |-> Len(ls) + 1]

\* QuerySet.__init__: the attributes are the references it is given.
QuerySet_init(fc, ec, sr, lc, off) ==
    [filter_clauses |-> fc, exclude_clauses |-> ec, select_related |-> sr,
     limit_count |-> lc, query_offset |-> off]

\* self.__class__(...): a new QuerySet object; ref is the object returned.
Construct(ls, objs, attrs) ==
    [lists |-> ls, qs |-> Append(objs, attrs), ref |-> Len(objs) + 1]

\* The predicate nodes QueryClause builds for kwargs, "pk" standing for the
\* primary key; every node is a new object, told apart by `n`.
BuiltNodes(kw, n) ==
    LET keys == SelectSeq(FieldOrder, LAMBDA f : f \in DOMAIN kw)
    IN [k \in DOMAIN keys |->
          [f |-> IF keys[k] = "pk" THEN "id" ELSE keys[k],
           v |-> kw[keys[k]], n |-> n]]

\* The relation paths a lookup goes through.
DiscoveredPaths(kw) == {"children" : k \in DOMAIN kw \cap {"children__id"}}

\* QueryClause.filter: the filter clauses it was given followed by the
\* newly built predicates, and the select-related paths it was given
\* followed by the paths the lookups go through; its inputs are not mutated.
QueryClause_filter(ls, sr, fc, kw) ==
    LET nodes == BuiltNodes(kw, Len(ls) + 1)
        a == AllocList(ls, ls[fc] \o nodes)
        more == DiscoveredPaths(kw) \ Range(ls[sr])
        b == AllocList(a.lists,
                       ls[sr] \o (IF more = {} THEN <<>> ELSE <<"children">>))
    IN [lists |-> b.lists, filter_clauses |-> a.id, select_related |-> b.id]

filter(H, self, exclude_, kw) ==
    LET me == H.qs[self]
        qryclause == QueryClause_filter(H.lists, me.select_related,
                                        me.filter_clauses, kw)
        exclude_clauses == IF exclude_ THEN qryclause.filter_clauses
                                       ELSE me.exclude_clauses
        filter_clauses == IF exclude_ THEN me.filter_clauses
                                      ELSE qryclause.filter_clauses
    IN Construct(qryclause.lists, H.qs,
                 QuerySet_init(filter_clauses, exclude_clauses,
                               qryclause.select_related,
                               me.limit_count, me.query_offset))

exclude(H, self, kw) == filter(H, self, TRUE, kw)

\* set(list(self._select_related) + related), a str being wrapped in a list.
RelatedSet(H, self, related) ==
    LET rel == IF related.islist THEN related.items ELSE <<related.item>>
    IN Range(H.lists[H.qs[self].select_related] \o rel)

\* list(set(...)): the paths of both, each once; pick chooses the order the
\* set happens to iterate in.
select_related(H, self, related, pick) ==
    LET me == H.qs[self]
        a == AllocList(H.lists, pick[RelatedSet(H, self, related)])
    IN Construct(a.lists, H.qs,
                 QuerySet_init(me.filter_clauses, me.exclude_clauses, a.id,
                               me.limit_count, me.query_offset))

limit(H, self, limit_count) ==
    LET me == H.qs[self]
    IN Construct(H.lists, H.qs,
                 QuerySet_init(me.filter_clauses, me.exclude_clauses,
                               me.select_related, limit_count, me.query_offset))

\* A slip that would set the attribute on the receiver and return it.
offset_in_place(H, self, off) ==
    [lists |-> H.lists, qs |-> [H.qs EXCEPT ![self].query_offset = off],
     ref |-> self]

offset(H, self, off) ==
    LET me == H.qs[self]
    IN Construct(H.lists, H.qs,
                 QuerySet_init(me.filter_clauses, me.exclude_clauses,
                               me.select_related, me.limit_count, off))

\* The arguments build_select_expression hands to Query(...).
build_select_expression(H, self) ==
    LET me == H.qs[self]
    IN [select_related |-> H.lists[me.select_related],
        filter_clauses |-> H.lists[me.filter_clauses],
        exclude_clauses |-> H.lists[me.exclude_clauses],
        offset |-> me.query_offset,
        limit_count |-> me.limit_count]

\* The fields of QuerySet object i, read through the heap.
Fields(ls, objs, i) ==
    [filter_clauses |-> ls[objs[i].filter_clauses],
     exclude_clauses |-> ls[objs[i].exclude_clauses],
     select_related |-> ls[objs[i].select_related],
     limit_count |-> objs[i].limit_count,
     offset |-> objs[i].query_offset]

-----------------------------------------------------------------------------
(* The database behind the transport.  `table` is the root table joined    *)
(* with the one-to-many relation "children", in the order the database     *)
(* returns rows: a root with k children has k rows, a root with none has   *)
(* one row whose child is None.                                            *)

Rows == [id : Ids, val : Vals, child : Kids \cup {None}]

WellFormed(t) ==
    \A a, b \in DOMAIN t :
        /\ t[a].id = t[b].id => t[a].val = t[b].val
        /\ t[a].child = t[b].child /\ t[a].child # None => t[a].id = t[b].id
        /\ t[a].id = t[b].id /\ a # b =>
              t[a].child # None /\ t[a].child # t[b].child

Tables == {t \in UNION {[1..n -> Rows] : n \in 0..MaxRows} : WellFormed(t)}

\* The distinct values of s, in the order of their first occurrence.
RECURSIVE Distinct(_)
Distinct(s) ==
    IF s = <<>> THEN <<>>
    ELSE LET d == Distinct(SubSeq(s, 1, Len(s) - 1))
         IN IF s[Len(s)] \in Range(d) THEN d ELSE Append(d, s[Len(s)])

\* The rows of the root table alone.
RootRows(t) ==
    Distinct([k \in DOMAIN t |-> [id |-> t[k].id, val |-> t[k].val, child |-> None]])

Matches(row, c) ==
    CASE c.f = "id" -> row.id = c.v
      [] c.f = "val" -> row.val = c.v
      [] c.f = "children__id" -> row.child = c.v

\* WHERE: every filter clause holds and no exclude clause does.
Where(row, fc, ec) ==
    /\ \A k \in DOMAIN fc : Matches(row, fc[k])
    /\ \A k \in DOMAIN ec : ~Matches(row, ec[k])

\* OFFSET and LIMIT of a statement, None standing for "not set".
Window(rows, off, lim) ==
    LET from == IF off = None THEN 1 ELSE off + 1
        upto == IF lim = None \/ from + lim - 1 > Len(rows)
                THEN Len(rows) ELSE from + lim - 1
    IN SubSeq(rows, from, upto)

\* Database.fetch_all of the statement Query builds from expr: the joins
\* of its select-related paths, its conditions, then its offset and limit.
fetch_all(t, expr) ==
    LET joined == IF "children" \in Range(expr.select_related)
                  THEN t ELSE RootRows(t)
        kept == SelectSeq(joined,
                          LAMBDA r : Where(r, expr.filter_clauses,
                                           expr.exclude_clauses))
    IN Window(kept, expr.offset, expr.limit_count)

\* The root entities the conditions of expr select, whatever its window.
Matching(t, expr) ==
    {t[k].id : k \in {j \in DOMAIN t :
                        Where(IF "children" \in Range(expr.select_related)
                              THEN t[j] ELSE [t[j] EXCEPT !.child = None],
                              expr.filter_clauses, expr.exclude_clauses)}}

\* Model.from_row: one object per raw row, a null child being no child.
from_row(row, sr) ==
    [id |-> row.id, val |-> row.val,
     children |-> IF "children" \in Range(sr) /\ row.child # None
                  THEN <<row.child>> ELSE <<>>]

\* Appends to `into` the members of `more` it does not hold yet.
RECURSIVE AppendNew(_, _)
AppendNew(into, more) ==
    IF more = <<>> THEN into
    ELSE AppendNew(IF more[1] \in Range(into) THEN into ELSE Append(into, more[1]),
                   Tail(more))

\* Model.merge_instances_list: one object per primary key, in the order the
\* keys first appear; a later object of a key adds its children to the first.
RECURSIVE merge_instances_list(_)
merge_instances_list(objs) ==
    IF objs = <<>> THEN <<>>
    ELSE LET m == merge_instances_list(SubSeq(objs, 1, Len(objs) - 1))
             o == objs[Len(objs)]
         IN IF \E k \in DOMAIN m : m[k].id = o.id
            THEN [k \in DOMAIN m |->
                    IF m[k].id = o.id
                    THEN [m[k] EXCEPT !.children = AppendNew(@, o.children)]
                    ELSE m[k]]
            ELSE Append(m, o)

\* A slip that would return the per-row objects unmerged.
process_rows_unmerged(rows, sr) == [k \in DOMAIN rows |-> from_row(rows[k], sr)]

process_query_result_rows(rows, sr) ==
    LET result_rows == [k \in DOMAIN rows |-> from_row(rows[k], sr)]
    IN IF result_rows # <<>>
       THEN merge_instances_list(result_rows)
       ELSE result_rows

check_single_result_rows_count(rows) ==
    IF rows = <<>> \/ rows[1] = NoneObj THEN "NoMatch"
    ELSE IF Len(rows) > 1 THEN "MultipleMatches"
    ELSE "ok"

\* The rows get() asks for when the QuerySet has no filter clause.
GetCap == 2

SelectStmt(expr, failed) == [op |-> "select", expr |-> expr, failed |-> failed]

\* get() without keyword arguments; `failed`: the transport call raises.
get_plain(H, t, self, failed) ==
    LET expr0 == build_select_expression(H, self)
        expr == IF expr0.filter_clauses = <<>>
                THEN [expr0 EXCEPT !.limit_count = GetCap]
                ELSE expr0
        rows == fetch_all(t, expr)
        processed_rows == process_query_result_rows(rows, expr.select_related)
        out == check_single_result_rows_count(processed_rows)
    IN IF failed
       THEN [out |-> "TransportError", value |-> NoneObj,
             stmts |-> <<SelectStmt(expr, TRUE)>>, lists |-> H.lists, table |-> t]
       ELSE [out |-> out,
             value |-> IF out = "ok" THEN processed_rows[1] ELSE NoneObj,
             stmts |-> <<SelectStmt(expr, FALSE)>>, lists |-> H.lists, table |-> t]

\* get(**kwargs): with keyword arguments, self.filter(**kwargs).get().
get(H, t, self, kw, failed) ==
    IF kw # EmptyDict
    THEN LET f == filter(H, self, FALSE, kw)
         IN get_plain([lists |-> f.lists, qs |-> f.qs], t, f.ref, failed)
    ELSE get_plain(H, t, self, failed)

all_plain(H, t, self, failed) ==
    LET expr == build_select_expression(H, self)
        rows == fetch_all(t, expr)
        result_rows == process_query_result_rows(rows, expr.select_related)
    IN IF failed
       THEN [out |-> "TransportError", value |-> NoneObj,
             stmts |-> <<SelectStmt(expr, TRUE)>>, lists |-> H.lists, table |-> t]
       ELSE [out |-> "ok", value |-> result_rows,
             stmts |-> <<SelectStmt(expr, FALSE)>>, lists |-> H.lists, table |-> t]

\* all(**kwargs): with keyword arguments, self.filter(**kwargs).all().
all(H, t, self, kw, failed) ==
    IF kw # EmptyDict
    THEN LET f == filter(H, self, FALSE, kw)
         IN all_plain([lists |-> f.lists, qs |-> f.qs], t, f.ref, failed)
    ELSE all_plain(H, t, self, failed)

-----------------------------------------------------------------------------
(* Writing                                                                  *)

\* The entity: its own persisted fields and its relation fields.
OwnFields == {"id", "val"}

RelatedNames == {"children", "owner"}

Truthy(x) == x.t # "none" /\ x.v # 0

IsInstance(x, type) == x.t = type

NoValue == [t |-> "none", v |-> 0]

\* The key an autoincrementing table gives its next row.
NextKey(t) ==
    IF t = <<>> THEN 1
    ELSE 1 + (CHOOSE m \in {t[k].id : k \in DOMAIN t} :
                \A k \in DOMAIN t : t[k].id <= m)

\* The rows the conditions of an UPDATE or DELETE select:
\* FilterQuery(filter_clauses).apply(...).
Affected(t, fc) == {t[k].id : k \in {j \in DOMAIN t : Where(t[j], fc, <<>>)}}

\* Database.execute of an UPDATE: the new table and the affected-row count.
execute_update(t, fc, updates) ==
    [table |-> [k \in DOMAIN t |->
                  IF t[k].id \in Affected(t, fc) /\ "val" \in DOMAIN updates
                  THEN [t[k] EXCEPT !.val = updates.val] ELSE t[k]],
     count |-> Cardinality(Affected(t, fc))]

\* Database.execute of a DELETE.
execute_delete(t, fc) ==
    [table |-> SelectSeq(t, LAMBDA r : r.id \notin Affected(t, fc)),
     count |-> Cardinality(Affected(t, fc))]

\* The key of the row an INSERT of `values` makes; None: the row has none.
InsertKey(t, m, values) ==
    IF m.pkname \in DOMAIN values /\ values[m.pkname] # None
    THEN values[m.pkname]
    ELSE IF m.autoincrement THEN NextKey(t) ELSE None

\* The INSERT is refused: no key, or a key the table already holds.
InsertRefused(t, m, values) ==
    \/ InsertKey(t, m, values) = None
    \/ \E k \in DOMAIN t : t[k].id = InsertKey(t, m, values)

\* Database.execute of an INSERT: the new table and what the driver returns:
\* nothing, the integer row id, or the key of the row in its declared type.
execute_insert(t, m, values, driver) ==
    LET key == InsertKey(t, m, values)
    IN [table |-> Append(t, [id |-> key,
                             val |-> IF "val" \in DOMAIN values
                                     THEN values.val ELSE None,
                             child |-> None]),
        pk |-> CASE driver = "none" -> NoValue
                 [] driver = "rowid" ->
                      [t |-> "int",
                       v |-> IF m.pk_type = "int" THEN key ELSE Len(t) + 1]
                 [] driver = "key" -> [t |-> m.pk_type, v |-> key]]

Drivers == {"none", "rowid", "key"}

populate_default_values(m, new_kwargs) ==
    [f \in DOMAIN new_kwargs \cup DOMAIN m.defaults |->
        IF f \in DOMAIN new_kwargs THEN new_kwargs[f] ELSE m.defaults[f]]

remove_pk_from_kwargs(m, new_kwargs) ==
    IF /\ m.pkname \in DOMAIN new_kwargs
       /\ new_kwargs[m.pkname] = None
       /\ (m.nullable \/ m.autoincrement)
    THEN Del(new_kwargs, m.pkname)
    ELSE new_kwargs

\* self.model(**kwargs): the object of the fields the caller gave.
NewModel(kw) ==
    [id |-> IF "id" \in DOMAIN kw THEN kw.id ELSE None,
     val |-> IF "val" \in DOMAIN kw THEN kw.val ELSE None,
     children |-> <<>>]

\* A slip that would assign what execute returns without looking at its type.
create_untyped(t, m, kw, driver, failed) ==
    LET new_kwargs == populate_default_values(m, remove_pk_from_kwargs(m, kw))
        stmt == [op |-> "insert", values |-> new_kwargs]
        x == execute_insert(t, m, new_kwargs, driver)
        instance1 == IF m.pkname \notin DOMAIN kw /\ m.pkname \in DOMAIN new_kwargs
                     THEN [NewModel(kw) EXCEPT !.id = new_kwargs[m.pkname]]
                     ELSE NewModel(kw)
    IN IF failed \/ InsertRefused(t, m, new_kwargs)
       THEN [out |-> "TransportError", value |-> NoneObj,
             stmts |-> <<stmt>>, table |-> t, pk |-> NoValue]
       ELSE [out |-> "ok",
             value |-> IF Truthy(x.pk) THEN [instance1 EXCEPT !.id = x.pk.v]
                                       ELSE instance1,
             stmts |-> <<stmt>>, table |-> x.table, pk |-> x.pk]

\* create(**kwargs); driver: what the transport returns; failed: it raises.
create(t, m, kw, driver, failed) ==
    LET new_kwargs == populate_default_values(m, remove_pk_from_kwargs(m, kw))
        stmt == [op |-> "insert", values |-> new_kwargs]
        instance == NewModel(kw)
        x == execute_insert(t, m, new_kwargs, driver)
        pk == x.pk
        from_default == m.pkname \notin DOMAIN kw /\ m.pkname \in DOMAIN new_kwargs
        from_execute == Truthy(pk) /\ IsInstance(pk, m.pk_type)
        instance1 == IF from_default
                     THEN [instance EXCEPT !.id = new_kwargs[m.pkname]]
                     ELSE instance
        instance2 == IF from_execute
                     THEN [instance1 EXCEPT !.id = pk.v]
                     ELSE instance1
    IN IF failed \/ InsertRefused(t, m, new_kwargs)
       THEN [out |-> "TransportError", value |-> NoneObj,
             stmts |-> <<stmt>>, table |-> t, pk |-> NoValue]
       ELSE [out |-> "ok", value |-> instance2,
             stmts |-> <<stmt>>, table |-> x.table, pk |-> pk]

\* A slip that would lose the guard against unscoped updates.
update_unguarded(H, t, self, each, kw, failed) ==
    LET fc == H.lists[H.qs[self].filter_clauses]
        updates == Restrict(kw, OwnFields)
        stmt == [op |-> "update", where |-> fc, values |-> updates]
        x == execute_update(t, fc, updates)
    IN IF failed
       THEN [out |-> "TransportError", value |-> 0, stmts |-> <<stmt>>,
             lists |-> H.lists, table |-> t]
       ELSE [out |-> "ok", value |-> x.count, stmts |-> <<stmt>>,
             lists |-> H.lists, table |-> x.table]

update(H, t, self, each, kw, failed) ==
    LET fc == H.lists[H.qs[self].filter_clauses]
        updates == Restrict(kw, OwnFields)
        stmt == [op |-> "update", where |-> fc, values |-> updates]
        x == execute_update(t, fc, updates)
    IN IF ~each /\ fc = <<>>
       THEN [out |-> "QueryDefinitionError", value |-> 0, stmts |-> <<>>,
             lists |-> H.lists, table |-> t]
       ELSE IF failed
       THEN [out |-> "TransportError", value |-> 0, stmts |-> <<stmt>>,
             lists |-> H.lists, table |-> t]
       ELSE [out |-> "ok", value |-> x.count, stmts |-> <<stmt>>,
             lists |-> H.lists, table |-> x.table]

delete_plain(H, t, self, each, failed) ==
    LET fc == H.lists[H.qs[self].filter_clauses]
        stmt == [op |-> "delete", where |-> fc]
        x == execute_delete(t, fc)
    IN IF ~each /\ fc = <<>>
       THEN [out |-> "QueryDefinitionError", value |-> 0, stmts |-> <<>>,
             lists |-> H.lists, table |-> t]
       ELSE IF failed
       THEN [out |-> "TransportError", value |-> 0, stmts |-> <<stmt>>,
             lists |-> H.lists, table |-> t]
       ELSE [out |-> "ok", value |-> x.count, stmts |-> <<stmt>>,
             lists |-> H.lists, table |-> x.table]

\* delete(each, **kwargs): with keyword arguments, self.filter(**kwargs).delete().
delete(H, t, self, each, kw, failed) ==
    IF kw # EmptyDict
    THEN LET f == filter(H, self, FALSE, kw)
         IN delete_plain([lists |-> f.lists, qs |-> f.qs], t, f.ref, FALSE, failed)
    ELSE delete_plain(H, t, self, each, failed)

\* A slip that would create whatever the read raised.
get_or_create_any_error(H, t, m, self, kw, driver, fails) ==
    LET g == get(H, t, self, kw, 1 \in fails)
        c == create(t, m, kw, driver, 2 \in fails)
    IN IF g.out # "ok"
       THEN [out |-> c.out, value |-> c.value,
             stmts |-> g.stmts \o c.stmts, lists |-> g.lists,
             table |-> c.table, pk |-> c.pk]
       ELSE g

\* get_or_create(**kwargs); fails: the transport calls (first, second) that raise.
get_or_create(H, t, m, self, kw, driver, fails) ==
    LET g == get(H, t, self, kw, 1 \in fails)
        c == create(t, m, kw, driver, 2 \in fails)
    IN IF g.out = "NoMatch"
       THEN [out |-> c.out, value |-> c.value,
             stmts |-> g.stmts \o c.stmts, lists |-> g.lists,
             table |-> c.table, pk |-> c.pk]
       ELSE g

\* Model.update(**kwargs) of a loaded object: one UPDATE of its row.
model_update(t, obj, kw, failed) ==
    LET stmt == [op |-> "update", pk |-> obj.id, values |-> kw]
    IN IF failed
       THEN [out |-> "TransportError", value |-> NoneObj, stmts |-> <<stmt>>,
             table |-> t]
       ELSE [out |-> "ok",
             value |-> IF "val" \in DOMAIN kw THEN [obj EXCEPT !.val = kw.val]
                                              ELSE obj,
             stmts |-> <<stmt>>,
             table |-> [k \in DOMAIN t |->
                          IF t[k].id = obj.id /\ "val" \in DOMAIN kw
                          THEN [t[k] EXCEPT !.val = kw.val] ELSE t[k]]]

\* kwargs[pk_name] = kwargs.pop("pk")
PopPk(m, kw) ==
    IF "pk" \in DOMAIN kw THEN Put(Del(kw, "pk"), m.pkname, kw.pk) ELSE kw

\* A slip that would take the create branch only when the key is absent.
update_or_create_null_key(H, t, m, self, kw0, driver, fails) ==
    LET kwargs == PopPk(m, kw0)
        g == get(H, t, self, [pk |-> kwargs[m.pkname]], 1 \in fails)
        u == model_update(t, g.value, kwargs, 2 \in fails)
    IN IF m.pkname \notin DOMAIN kwargs
       THEN create(t, m, kwargs, driver, 1 \in fails)
       ELSE IF g.out # "ok" THEN g
       ELSE [out |-> u.out, value |-> u.value, stmts |-> g.stmts \o u.stmts,
             lists |-> g.lists, table |-> u.table]

update_or_create(H, t, m, self, kw0, driver, fails) ==
    LET kwargs == PopPk(m, kw0)
        g == get(H, t, self, [pk |-> kwargs[m.pkname]], 1 \in fails)
        u == model_update(t, g.value, kwargs, 2 \in fails)
    IN IF m.pkname \notin DOMAIN kwargs \/ kwargs[m.pkname] = None
       THEN create(t, m, kwargs, driver, 1 \in fails)
       ELSE IF g.out # "ok" THEN g
       ELSE [out |-> u.out, value |-> u.value, stmts |-> g.stmts \o u.stmts,
             lists |-> g.lists, table |-> u.table]

\* The bind parameter of a column: "new_" + k.
NewName == [id |-> "new_id", val |-> "new_val",
            children |-> "new_children", owner |-> "new_owner"]

\* Database.execute_many of the batched UPDATE: each row of parameters
\* updates the table row it names by key.
RECURSIVE execute_many_update(_, _, _)
execute_many_update(t, stmt, rows) ==
    IF rows = <<>> THEN t
    ELSE LET r == rows[1]
             t1 == [k \in DOMAIN t |->
                      IF /\ stmt.key \in DOMAIN r
                         /\ t[k].id = r[stmt.key]
                         /\ "new_val" \in stmt.set \cap DOMAIN r
                      THEN [t[k] EXCEPT !.val = r.new_val] ELSE t[k]]
         IN execute_many_update(t1, stmt, Tail(rows))

\* {"new_" + k: v for k, v in new_kwargs.items() if k in columns}
Ready(o, columns) ==
    [x \in {NewName[k] : k \in DOMAIN o \cap columns} |->
        o[CHOOSE k \in DOMAIN o : NewName[k] = x]]

BulkStmt(m, columns, rows) ==
    [op |-> "update_many", key |-> NewName[m.pkname],
     set |-> {NewName[k] : k \in columns \ {m.pkname}}, rows |-> rows]

\* A slip that would leave the unsaved objects out instead of raising.
bulk_update_saved_only(t, m, objects, columns0, failed) ==
    LET columns == (IF columns0 = {} THEN OwnFields \cup RelatedNames
                    ELSE columns0) \cup {m.pkname}
        saved == SelectSeq(objects,
                           LAMBDA o : m.pkname \in DOMAIN o /\ o[m.pkname] # None)
        ready_objects == [k \in DOMAIN saved |-> Ready(saved[k], columns)]
        stmt == BulkStmt(m, columns, ready_objects)
    IN IF failed
       THEN [out |-> "TransportError", value |-> NoneObj, stmts |-> <<stmt>>,
             table |-> t]
       ELSE [out |-> "ok", value |-> NoneObj, stmts |-> <<stmt>>,
             table |-> execute_many_update(t, stmt, ready_objects)]

\* bulk_update(objects, columns); columns0 = {} stands for no columns given.
bulk_update(t, m, objects, columns0, failed) ==
    LET columns == (IF columns0 = {} THEN OwnFields \cup RelatedNames
                    ELSE columns0) \cup {m.pkname}
        unsaved == \E k \in DOMAIN objects :
                      \/ m.pkname \notin DOMAIN objects[k]
                      \/ objects[k][m.pkname] = None
        ready_objects == [k \in DOMAIN objects |-> Ready(objects[k], columns)]
        stmt == BulkStmt(m, columns, ready_objects)
    IN IF unsaved
       THEN [out |-> "QueryDefinitionError", value |-> NoneObj, stmts |-> <<>>,
             table |-> t]
       ELSE IF failed
       THEN [out |-> "TransportError", value |-> NoneObj, stmts |-> <<stmt>>,
             table |-> t]
       ELSE [out |-> "ok", value |-> NoneObj, stmts |-> <<stmt>>,
             table |-> execute_many_update(t, stmt, ready_objects)]

-----------------------------------------------------------------------------
(* The program: the chain                                                   *)

Heap == [lists |-> lists, qs |-> qs]

NoCall == [op |-> "none"]

\* Model.objects: QuerySet(model_cls=owner), three new empty lists.
InitChain ==
    /\ lists = <<<<>>, <<>>, <<>>>>
    /\ qs = <<QuerySet_init(1, 2, 3, None, None)>>
    /\ hist = <<[F |-> {}, E |-> {}, SR |-> {}]>>
    /\ last = [op |-> "none"]
    /\ built = [self |-> 0]

\* The heap after a chain call; h is what the call added to the history of
\* the object it returned.
Chain(op, self, r, h) ==
    /\ lists' = r.lists
    /\ qs' = r.qs
    /\ hist' = IF r.ref > Len(hist)
               THEN Append(hist, h)
               ELSE [hist EXCEPT ![r.ref] = h]
    /\ last' = [op |-> op, self |-> self, ref |-> r.ref,
                lists |-> lists, qs |-> qs]
    /\ UNCHANGED <<built, table, meta, call>>

Filter ==
    /\ Len(qs) < MaxSpecs
    /\ \E self \in DOMAIN qs, kw \in Kwargs :
          Chain("filter", self, filter(Heap, self, FALSE, kw),
                 [hist[self] EXCEPT
                    !.F = @ \cup Range(BuiltNodes(kw, Len(lists) + 1))])

Exclude ==
    /\ Len(qs) < MaxSpecs
    /\ \E self \in DOMAIN qs, kw \in Kwargs :
          Chain("exclude", self, exclude(Heap, self, kw),
                 [hist[self] EXCEPT
                    !.E = @ \cup Range(BuiltNodes(kw, Len(lists) + 1))])

SelectRelated ==
    /\ Len(qs) < MaxSpecs
    /\ \E self \in DOMAIN qs, related \in RelatedArgs :
        \E ord \in Perms(RelatedSet(Heap, self, related)) :
            Chain("select_related", self,
                     select_related(Heap, self, related,
                                    [S \in {RelatedSet(Heap, self, related)} |-> ord]),
                     [hist[self] EXCEPT
                        !.SR = @ \cup (IF related.islist
                                       THEN Range(related.items)
                                       ELSE {related.item})])

Limit ==
    /\ Len(qs) < MaxSpecs
    /\ \E self \in DOMAIN qs, n \in 0..MaxCount :
          Chain("limit", self, limit(Heap, self, n), hist[self])

Offset ==
    /\ Len(qs) < MaxSpecs
    /\ \E self \in DOMAIN qs, n \in 0..MaxCount :
          Chain("offset", self, offset(Heap, self, n), hist[self])

BuildSelectExpression ==
    \E self \in DOMAIN qs :
        /\ built' = [self |-> self, args |-> build_select_expression(Heap, self)]
        /\ UNCHANGED <<lists, qs, hist, last, table, meta, call>>

Init ==
    /\ InitChain
    /\ table = <<>>
    /\ meta = AutoMeta
    /\ call = NoCall

Next ==
    \/ Filter
    \/ Exclude
    \/ SelectRelated
    \/ Limit
    \/ Offset
    \/ BuildSelectExpression

Spec == Init /\ [][Next]_vars

-----------------------------------------------------------------------------
(* The program: reading                                                     *)

\* The QuerySets the terminal calls are made on: the heap after one of a
\* few chains from Model.objects.
Root == [lists |-> <<<<>>, <<>>, <<>>>>,
         qs |-> <<QuerySet_init(1, 2, 3, None, None)>>]

Then(r) == [lists |-> r.lists, qs |-> r.qs]

KeepOrder == [S \in SUBSET Paths |-> CHOOSE s \in Perms(S) : TRUE]

ReadHeaps ==
    LET f1 == Then(filter(Root, 1, FALSE, [val |-> 1]))
        s1 == Then(select_related(Root, 1, [islist |-> FALSE, item |-> "children"],
                                  KeepOrder))
        e1 == Then(exclude(Root, 1, [val |-> 2]))
    IN <<Root, f1, s1, e1,
         Then(select_related(f1, 2, [islist |-> FALSE, item |-> "children"],
                             KeepOrder)),
         Then(exclude(s1, 2, [id |-> 2]))>>

\* The keyword arguments the terminal reads are called with.
ReadKwargs == {EmptyDict, [val |-> 1], [pk |-> 1]}

\* The lists of the heap that are still referenced once a terminal call
\* has returned: the QuerySet it built for its keyword arguments is gone.
Keep(ls) == SubSeq(ls, 1, Len(lists))

\* A terminal call is made and returns (or raises): `call` keeps its
\* arguments, what it gave back and the database it started from.
Terminal(op, args, r) ==
    /\ call' = [op |-> op, args |-> args, r |-> r, before |-> table]
    /\ table' = r.table
    /\ lists' = IF "lists" \in DOMAIN r THEN Keep(r.lists) ELSE lists
    /\ UNCHANGED <<qs, hist, last, built, meta>>

\* The caller is done with the result of the call.
Return ==
    /\ call.op # "none"
    /\ call' = NoCall
    /\ UNCHANGED <<lists, qs, hist, last, built, table, meta>>

Get ==
    /\ call.op = "none"
    /\ \E self \in DOMAIN qs, kw \in ReadKwargs, failed \in BOOLEAN :
          Terminal("get", [self |-> self, kw |-> kw],
                 get(Heap, table, self, kw, failed))

All ==
    /\ call.op = "none"
    /\ \E self \in DOMAIN qs, kw \in ReadKwargs, failed \in BOOLEAN :
          Terminal("all", [self |-> self, kw |-> kw],
                 all(Heap, table, self, kw, failed))

InitRead ==
    /\ \E h \in DOMAIN ReadHeaps :
          lists = ReadHeaps[h].lists /\ qs = ReadHeaps[h].qs
    /\ hist = <<>>
    /\ last = [op |-> "none"]
    /\ built = [self |-> 0]
    /\ table \in Tables
    /\ meta = AutoMeta
    /\ call = NoCall

NextRead == Get \/ All \/ Return

SpecRead == InitRead /\ [][NextRead]_vars

-----------------------------------------------------------------------------
(* The program: writing                                                     *)

\* The entities create is checked on: the key autoincrementing or not, of
\* integer or string type, with or without a default.
Metas ==
    {m \in [pkname : {"id"}, autoincrement : BOOLEAN, nullable : BOOLEAN,
            pk_type : {"int", "str"},
            defaults : {EmptyDict, [id |-> 2], [val |-> 1]}] :
        m.autoincrement => m.pk_type = "int"}

\* The root table without children.
WriteTables ==
    {t \in UNION {[1..n -> [id : Ids, val : Vals, child : {None}]] :
                    n \in 0..MaxWriteRows} : WellFormed(t)}

WriteHeaps ==
    <<Root,
      Then(filter(Root, 1, FALSE, [val |-> 1])),
      Then(exclude(Root, 1, [val |-> 2]))>>

\* Field values given to the write calls; the key may be given as None.
FieldKwargs(Names) ==
    {kw \in Dicts(Names, Ids \cup Vals \cup {None}) :
        "val" \in DOMAIN kw => kw.val # None}

\* An insert may follow: there is room for the row and for its key.
Room == Len(table) < MaxWriteRows /\ NextKey(table) <= MaxWriteRows + 1

Update ==
    /\ call.op = "none"
    /\ \E self \in DOMAIN qs, each \in BOOLEAN, failed \in BOOLEAN,
       kw \in Dicts({"val", "children"}, Vals) :
          Terminal("update", [self |-> self, each |-> each, kw |-> kw],
                 update(Heap, table, self, each, kw, failed))

Delete ==
    /\ call.op = "none"
    /\ \E self \in DOMAIN qs, each \in BOOLEAN, failed \in BOOLEAN,
       kw \in {EmptyDict, [val |-> 1]} :
          Terminal("delete", [self |-> self, each |-> each, kw |-> kw],
                 delete(Heap, table, self, each, kw, failed))

GetOrCreate ==
    /\ call.op = "none"
    /\ Room
    /\ Room
    /\ \E self \in DOMAIN qs, kw \in FieldKwargs({"id", "val"}),
       driver \in Drivers, fails \in SUBSET {1, 2} :
          Terminal("get_or_create", [self |-> self, kw |-> kw, fails |-> fails],
                 get_or_create(Heap, table, meta, self, kw, driver, fails))

UpdateOrCreate ==
    /\ call.op = "none"
    /\ Room
    /\ Room
    /\ \E self \in DOMAIN qs, kw \in FieldKwargs({"pk", "id", "val"}),
       driver \in Drivers, fails \in SUBSET {1, 2} :
          Terminal("update_or_create", [self |-> self, kw |-> kw, fails |-> fails],
                 update_or_create(Heap, table, meta, self, kw, driver, fails))

Create ==
    /\ call.op = "none"
    /\ Room
    /\ \E kw \in FieldKwargs({"id", "val"}), driver \in Drivers, failed \in BOOLEAN :
          Terminal("create", [kw |-> kw, failed |-> failed],
                 create(table, meta, kw, driver, failed))

BulkUpdate ==
    /\ call.op = "none"
    /\ \E objects \in UNION {[1..n -> FieldKwargs({"id", "val"})] : n \in 0..MaxObjs},
       columns \in SUBSET {"id", "val"}, failed \in BOOLEAN :
          Terminal("bulk_update", [objects |-> objects, columns |-> columns],
                 bulk_update(table, meta, objects, columns, failed))

InitWrite ==
    /\ \E h \in DOMAIN WriteHeaps :
          lists = WriteHeaps[h].lists /\ qs = WriteHeaps[h].qs
    /\ hist = <<>>
    /\ last = [op |-> "none"]
    /\ built = [self |-> 0]
    /\ table \in WriteTables
    /\ meta = AutoMeta
    /\ call = NoCall

NextWrite == Update \/ Delete \/ GetOrCreate \/ UpdateOrCreate \/ Return

SpecWrite == InitWrite /\ [][NextWrite]_vars

InitCreate ==
    /\ lists = Root.lists
    /\ qs = Root.qs
    /\ hist = <<>>
    /\ last = [op |-> "none"]
    /\ built = [self |-> 0]
    /\ table \in WriteTables
    /\ meta \in Metas
    /\ call = NoCall

NextCreate == Create \/ Return

SpecCreate == InitCreate /\ [][NextCreate]_vars

InitBulk ==
    /\ lists = Root.lists
    /\ qs = Root.qs
    /\ hist = <<>>
    /\ last = [op |-> "none"]
    /\ built = [self |-> 0]
    /\ table \in WriteTables
    /\ meta = AutoMeta
    /\ call = NoCall

NextBulk == BulkUpdate \/ Return

SpecBulk == InitBulk /\ [][NextBulk]_vars

-----------------------------------------------------------------------------
(* C1: a chain call leaves the fields of every QuerySet that existed       *)
(* before it, the receiver included, as they were, and returns an object   *)
(* that did not exist before the call.                                     *)
C1_Immutability ==
    last.op # "none" =>
        /\ \A i \in DOMAIN last.qs :
              /\ i \in DOMAIN qs
              /\ Fields(lists, qs, i) = Fields(last.lists, last.qs, i)
        /\ last.ref \notin DOMAIN last.qs
        /\ last.ref \in DOMAIN qs

\* A call on a QuerySet that is itself the result of a chain, made while an
\* earlier QuerySet of the chain is still there.
C1_Witness ==
    /\ last.op = "offset"
    /\ last.self > 1
    /\ Len(qs) = 3
    /\ Len(lists[qs[last.self].filter_clauses]) > 0

(* C2: a clause added through filter is never among exclude_clauses, and   *)
(* a clause added through exclude never among filter_clauses; exclude      *)
(* leaves filter_clauses as the receiver's and adds only the predicates it *)
(* built to exclude_clauses.                                               *)
C2_Separation ==
    /\ \A i \in DOMAIN qs :
          /\ hist[i].F \cap Range(lists[qs[i].exclude_clauses]) = {}
          /\ hist[i].E \cap Range(lists[qs[i].filter_clauses]) = {}
    /\ last.op = "exclude" =>
          LET new == Fields(lists, qs, last.ref)
              old == Fields(last.lists, last.qs, last.self)
          IN /\ new.filter_clauses = old.filter_clauses
             /\ Range(new.exclude_clauses) \ Range(old.exclude_clauses)
                   \subseteq hist[last.ref].E \ hist[last.self].E

(* C3: what build_select_expression hands to the statement builder holds   *)
(* every clause added by filter, every clause added by exclude and every   *)
(* path added by select_related along the chain, each path once.           *)
C3_NothingDropped ==
    built.self # 0 =>
        /\ hist[built.self].F \subseteq Range(built.args.filter_clauses)
        /\ hist[built.self].E \subseteq Range(built.args.exclude_clauses)
        /\ hist[built.self].SR \subseteq Range(built.args.select_related)
        /\ NoDup(built.args.select_related)

(* C4: get() without arguments on a QuerySet with no filter clause returns *)
(* the entity when exactly one entity matches, fails with NoMatch when     *)
(* none does and with MultipleMatches when more than one does (unless the  *)
(* transport itself fails).                                                *)
C4_GetExactlyOne ==
    (/\ call.op = "get"
     /\ call.args.kw = EmptyDict
     /\ lists[qs[call.args.self].filter_clauses] = <<>>
     /\ call.r.out # "TransportError") =>
        LET n == Cardinality(Matching(call.before,
                                      build_select_expression(Heap, call.args.self)))
        IN /\ n = 0 => call.r.out = "NoMatch"
           /\ n = 1 => call.r.out = "ok" /\ Matching(call.before,
                            build_select_expression(Heap, call.args.self))
                                           = {call.r.value.id}
           /\ n > 1 => call.r.out = "MultipleMatches"

(* C8: all() returns one object per distinct root key of the raw rows, in  *)
(* the order the keys first appear, each with the distinct children of the *)
(* rows of its key in first-encounter order; an empty sequence, not None,  *)
(* when there is no row.                                                   *)
C8_AllMerged ==
    (call.op = "all" /\ call.r.out = "ok") =>
        LET expr == call.r.stmts[1].expr
            raw == fetch_all(call.before, expr)
            joined == "children" \in Range(expr.select_related)
            keys == Distinct([k \in DOMAIN raw |-> raw[k].id])
            kidsOf(id) ==
                LET mine == SelectSeq(raw, LAMBDA r : r.id = id /\ r.child # None)
                IN Distinct([k \in DOMAIN mine |-> mine[k].child])
        IN /\ [k \in DOMAIN call.r.value |-> call.r.value[k].id] = keys
           /\ \A k \in DOMAIN call.r.value :
                 call.r.value[k].children =
                    IF joined THEN kidsOf(call.r.value[k].id) ELSE <<>>
           /\ raw = <<>> => call.r.value = <<>>

\* Rows K1-C1, K1-C2, K2-C3 give K1 with [C1, C2], then K2 with [C3].
C8_Witness ==
    /\ call.op = "all"
    /\ call.r.out = "ok"
    /\ Len(call.r.value) = 2
    /\ Len(fetch_all(call.before, call.r.stmts[1].expr)) = 3
    /\ Len(call.r.value[1].children) = 2
    /\ Len(call.r.value[2].children) = 1

\* An empty result set.
C8_WitnessEmpty ==
    /\ call.op = "all"
    /\ call.r.out = "ok"
    /\ call.r.value = <<>>

(* C5: update and delete called without filter keyword arguments, with     *)
(* each=False on a QuerySet without filter clause, fail with               *)
(* QueryDefinitionError, issue no statement and leave the table as it was; *)
(* otherwise exactly one statement, scoped by the filter clauses, is       *)
(* executed and the count the transport returns is returned.               *)
C5_UnscopedGuard ==
    (/\ call.op \in {"update", "delete"}
     /\ call.op = "delete" => call.args.kw = EmptyDict) =>
        LET fc == lists[qs[call.args.self].filter_clauses]
        IN IF ~call.args.each /\ fc = <<>>
           THEN /\ call.r.out = "QueryDefinitionError"
                /\ call.r.stmts = <<>>
                /\ table = call.before
           ELSE /\ Len(call.r.stmts) = 1
                /\ call.r.stmts[1].op = call.op
                /\ call.r.stmts[1].where = fc
                /\ call.r.out \in {"ok", "TransportError"}
                /\ call.r.out = "ok" =>
                      call.r.value = Cardinality(Affected(call.before, fc))

\* An update of a column, each=False, on Model.objects with rows in the table.
C5_Witness ==
    /\ call.op = "update"
    /\ ~call.args.each
    /\ "val" \in DOMAIN call.args.kw
    /\ lists[qs[call.args.self].filter_clauses] = <<>>
    /\ call.before # <<>>
    /\ call.r.out = "QueryDefinitionError"

Inserts(stmts) == {k \in DOMAIN stmts : stmts[k].op = "insert"}

Unsaved(o) == "id" \notin DOMAIN o \/ o.id = None

(* C7: bulk_update fails with QueryDefinitionError when any object of the  *)
(* batch has no primary key, and then sends no statement and updates no    *)
(* row; otherwise it issues exactly one execute_many, keyed by primary     *)
(* key, every row of parameters holding the key.                           *)
C7_BulkUpdate ==
    call.op = "bulk_update" =>
        LET objects == call.args.objects
            stmts == call.r.stmts
        IN IF \E k \in DOMAIN objects : Unsaved(objects[k])
           THEN /\ call.r.out = "QueryDefinitionError"
                /\ stmts = <<>>
                /\ table = call.before
           ELSE /\ Len(stmts) = 1
                /\ stmts[1].op = "update_many"
                /\ stmts[1].key = "new_id"
                /\ Len(stmts[1].rows) = Len(objects)
                /\ \A k \in DOMAIN objects :
                      /\ "new_id" \in DOMAIN stmts[1].rows[k]
                      /\ stmts[1].rows[k].new_id = objects[k].id

\* The first object is saved and would change its row; the second has no key.
C7_Witness ==
    /\ call.op = "bulk_update"
    /\ Len(call.args.objects) = 2
    /\ ~Unsaved(call.args.objects[1])
    /\ Unsaved(call.args.objects[2])
    /\ "val" \in call.args.columns
    /\ "val" \in DOMAIN call.args.objects[1]
    /\ \E k \in DOMAIN call.before :
          /\ call.before[k].id = call.args.objects[1].id
          /\ call.before[k].val # call.args.objects[1].val
    /\ call.r.out = "QueryDefinitionError"

(* C9: create on an entity with an autoincrementing key, the key omitted   *)
(* or None, returns an object whose key is the generated key execute       *)
(* returned (a value of the declared key type); a value execute returns    *)
(* that is not of the declared type is never assigned, the key then being  *)
(* the caller's, or the field default when the caller omitted the key.     *)
C9_CreateKey ==
    (call.op = "create" /\ call.r.out = "ok") =>
        LET kw == call.args.kw
            pk == call.r.pk
        IN /\ (/\ meta.autoincrement
               /\ ("id" \notin DOMAIN kw \/ kw.id = None)
               /\ pk.t = meta.pk_type
               /\ pk.v # 0) =>
                    /\ call.r.value.id = pk.v
                    /\ call.r.value.id # None
           /\ pk.t # meta.pk_type =>
                 call.r.value.id =
                    IF "id" \in DOMAIN kw THEN kw.id
                    ELSE IF "id" \in DOMAIN meta.defaults THEN meta.defaults.id
                    ELSE None

\* The key omitted, the table not empty, the generated key on the object.
C9_Witness ==
    /\ call.op = "create"
    /\ call.r.out = "ok"
    /\ meta.autoincrement
    /\ "id" \notin DOMAIN call.args.kw
    /\ call.before # <<>>
    /\ call.r.value.id = NextKey(call.before)

NoRead(stmts) == \A k \in DOMAIN stmts : stmts[k].op # "select"

(* C10 as stated: with the key present and non-null under its field name   *)
(* or under the alias pk, update_or_create reads first and never inserts;  *)
(* otherwise it only creates.                                              *)
C10_AsStated ==
    call.op = "update_or_create" =>
        LET kw == call.args.kw
            given == \/ "pk" \in DOMAIN kw /\ kw.pk # None
                     \/ "id" \in DOMAIN kw /\ kw.id # None
            stmts == call.r.stmts
        IN IF given
           THEN stmts[1].op = "select" /\ Inserts(stmts) = {}
           ELSE stmts[1].op = "insert" /\ NoRead(stmts)

(* C10 amended: a value given under the alias pk replaces the one given    *)
(* under the field name.  With the resulting key non-null, the object is   *)
(* first read by that key and, once read, updated with all supplied        *)
(* fields, and nothing is inserted; a failure of the read propagates and   *)
(* nothing is written.  With the key absent or None, create only: no read. *)
C10_UpdateOrCreate ==
    call.op = "update_or_create" =>
        LET kw == call.args.kw
            key == IF "pk" \in DOMAIN kw THEN kw.pk
                   ELSE IF "id" \in DOMAIN kw THEN kw.id ELSE None
            supplied == [f \in (DOMAIN kw \ {"pk"}) \cup
                               (IF "pk" \in DOMAIN kw THEN {"id"} ELSE {}) |->
                           IF f = "id" THEN key ELSE kw[f]]
            stmts == call.r.stmts
            g == get(Heap, call.before, call.args.self, [pk |-> key],
                     1 \in call.args.fails)
        IN IF key # None
           THEN /\ stmts[1] = g.stmts[1]
                /\ LET fc == stmts[1].expr.filter_clauses
                   IN fc # <<>> /\ fc[Len(fc)].f = "id" /\ fc[Len(fc)].v = key
                /\ Inserts(stmts) = {}
                /\ IF g.out = "ok"
                   THEN /\ Len(stmts) = 2
                        /\ stmts[2].op = "update"
                        /\ stmts[2].pk = key
                        /\ stmts[2].values = supplied
                   ELSE /\ Len(stmts) = 1
                        /\ call.r.out = g.out
                        /\ table = call.before
           ELSE /\ Len(stmts) = 1
                /\ stmts[1].op = "insert"

\* The key given under the alias; the row is read, then updated.
C10_Witness ==
    /\ call.op = "update_or_create"
    /\ "pk" \in DOMAIN call.args.kw
    /\ Len(call.r.stmts) = 2
    /\ call.r.out = "ok"
    /\ table # call.before

====
